---- MODULE Spec2Model ----
(***************************************************************************)
(* A model of src/writer.py (the AIvan blog writer): the generation        *)
(* gateway call_claude, the word-count enforcer ensure_word_count, the     *)
(* revision engine revise_article with its session handlers, the history   *)
(* list save_to_history, the display sanitizer clean_article_for_display,  *)
(* the keyword merge of generate_prompt and generate_title_only, the       *)
(* marker translation process_revision_colors with strip_html_tags, the    *)
(* parsing of the word-count band, the article preview and the submission  *)
(* script that generates, enforces and records the variants.               *)
(*                                                                         *)
(* TEXT.  A Python string is modelled as the non-empty sequence of its     *)
(* lines (what str.split('\n') returns); the empty string is the sequence  *)
(* holding one empty line.  A line is a record [k, ind]: k is the class of *)
(* the line with respect to the phrase lists of the source, ind says       *)
(* whether the line starts with white space.  Each class stands for a      *)
(* concrete line:                                                          *)
(*    k         ind=FALSE              ind=TRUE            words           *)
(*    "text"    "Recruitment"          "  Recruitment"     1               *)
(*    "blank"   ""                     "  "                0               *)
(*    "sep"     "---"                  "  ---"             1               *)
(*    "wcmeta"  "Word count: 600"      "  Word count: 600" 3               *)
(*    "expmeta" "words to expand"      "  words to expand" 3               *)
(*    "label"   "Benefits:"            "  Benefits:"       1               *)
(*    "para"    "Paragraphs"           "  Paragraphs"      1               *)
(*    "elide"   "rest remains"         "  rest remains"    2               *)
(*    "rev"     "[REVISED]New[/REVISED]"                   1               *)
(*    "span"    "<span style="color: #0066CC;">New</span>" 3               *)
(* None (Python) is the empty sequence, which is no string.                *)
(***************************************************************************)
EXTENDS Integers, Sequences, FiniteSets, TLC

\* ------------------------------------------------------------------ bounds
\* Longest input text, in lines, given to the display sanitizer.
MaxSanLines == 4

\* Longest article, in lines, given to the word-count enforcer.
MaxArticleLines == 2

\* Longest text, in lines, the generator returns for one call.
MaxReplyLines == 2

\* Largest minimum of a word-count band.
MaxMinWords == 3

\* Largest retry_count given to call_claude (the callers pass 3).
MaxRetry == 4

\* Most save_to_history insertions in one session.
MaxInserts == 15

\* Longest text, in lines, the generator returns for a revision call.
MaxRevisionLines == 1

\* Longest base keyword list of a client profile.
MaxBaseKeywords == 2

\* Most comma-separated items in the extra-keywords string.
MaxExtraItems == 3

\* Longest generator response, in atoms, given to the marker translation.
MaxMarkerAtoms == 4

\* Most '-'-separated parts of the word-count band string.
MaxBandParts == 3

\* Longest text, in lines, the generator returns for an article shown in
\* the preview.
MaxPreviewLines == 3

\* Longest article, in lines, the generator returns within a submission.
MaxSubmitLines == 1

\* The submissions of one login session.
MaxSubmissions == 2

\* ------------------------------------------------------------- text model
None == <<>>

Line(k, ind) == [k |-> k, ind |-> ind]

EmptyLine == Line("blank", FALSE)

EmptyString == <<EmptyLine>>

\* Python truthiness of a string or None: `if article:`.
Truthy(s) == s # None /\ s # EmptyString

\* str.strip() of one line: leading white space goes (trailing white space
\* is not modelled: no line of the model ends with any).
LineStrip(line) == [line EXCEPT !.ind = FALSE]

\* len(line.split()) of a line of each class.
LineWords(line) ==
    CASE line.k = "blank" -> 0
      [] line.k \in {"text", "sep", "label", "para", "rev"} -> 1
      [] line.k = "elide" -> 2
      [] line.k \in {"wcmeta", "expmeta", "span"} -> 3

RECURSIVE SumWords(_, _)
SumWords(lines, i) ==
    IF i > Len(lines) THEN 0 ELSE LineWords(lines[i]) + SumWords(lines, i + 1)

\* len(s.split()): white space, line breaks included, separates words.
WordCount(s) == SumWords(s, 1)

\* s.split('\n')
Split(s) == s

\* '\n'.join(lines): joining no line at all gives the empty string.
Join(lines) == IF lines = <<>> THEN EmptyString ELSE lines

\* s.strip(): leading and trailing white space goes, line breaks and
\* white-space-only lines at both ends included.
Strip(s) ==
    LET solid == {i \in 1..Len(s) : s[i].k # "blank"}
    IN  IF solid = {} THEN EmptyString
        ELSE LET lo == CHOOSE i \in solid : \A j \in solid : i <= j
                 hi == CHOOSE i \in solid : \A j \in solid : i >= j
                 cut == SubSeq(s, lo, hi)
             IN  [cut EXCEPT ![1] = LineStrip(cut[1])]

\* a + "\n\n" + b
AppendParagraph(a, b) == a \o <<EmptyLine>> \o b

\* All texts of 1..n lines over an alphabet of lines.
TextsUpTo(alphabet, n) == UNION {[1..m -> alphabet] : m \in 1..n}

\* ------------------------------------------------------ display sanitizer
\* any(x in line.lower() for x in ['word count:', 'total words:',
\* '[total word', 'additional words', '---expanded', "here's an additional",
\* 'to expand the article', 'words to expand'])
IsDisplayMeta(line) == line.k \in {"wcmeta", "expmeta"}

IsSeparatorNoStrip(line) == line = Line("sep", FALSE)

\* line.strip() in ['---', '___', '---EXPANDED CONTENT---']
IsSeparator(line) == LineStrip(line) = Line("sep", FALSE)

\* line.strip() == ''
IsBlank(line) == LineStrip(line) = EmptyLine

\* The loop of clean_article_for_display over the lines from the i-th on.
RECURSIVE DisplayLoop(_, _, _, _)
DisplayLoop(lines, i, skip_next, clean_lines) ==
    IF i > Len(lines) THEN clean_lines
    ELSE LET line == lines[i]
         IN  IF IsDisplayMeta(line)
             THEN DisplayLoop(lines, i + 1, TRUE, clean_lines)
             ELSE IF IsSeparator(line)
             THEN DisplayLoop(lines, i + 1, skip_next, clean_lines)
             ELSE IF skip_next /\ IsBlank(line)
             THEN DisplayLoop(lines, i + 1, FALSE, clean_lines)
             ELSE DisplayLoop(lines, i + 1, FALSE, Append(clean_lines, line))

clean_article_for_display(article) ==
    Strip(Join(DisplayLoop(Split(article), 1, FALSE, <<>>)))

\* ---------------------------------------------------- word-count enforcer
\* The fixed buffer added to every shortfall.
Buffer == 50

\* any(x in line.lower() for x in ['word count:', 'total words:',
\* '[total word', 'additional words', '---expanded'])
IsEnforcerMeta(line) == line.k = "wcmeta"

\* The cleaning loop at the head of ensure_word_count, joined and stripped.
EnforcerClean(article) ==
    Strip(Join(SelectSeq(Split(article),
                         LAMBDA line : ~IsEnforcerMeta(line) /\ ~IsSeparator(line))))

\* Round 1 drops a line holding one of 'additional paragraph', 'additional
\* content', "here's", 'here is', 'to expand', 'this adds', 'adding to',
\* 'for the', 'section:', "i'll add", 'let me add', 'here are', 'to the
\* section', 'building on', 'furthermore to', 'expanding on the', and a line
\* that ends with ':' and is shorter than 50 characters.
Round1Drops(line) == line.k \in {"expmeta", "label"}

\* Round 2 drops a line holding one of 'additional', 'here', 'paragraph',
\* 'section', 'adding', 'to expand', 'furthermore to', 'building on'.
Round2Drops(line) == line.k \in {"expmeta", "para"}

FilterRound1(additional_content) ==
    Strip(Join(SelectSeq(Split(additional_content),
                         LAMBDA line : ~Round1Drops(line))))

FilterRound2(more_content) ==
    Strip(Join(SelectSeq(Split(more_content),
                         LAMBDA line : ~Round2Drops(line))))

MeetsMinimumOffByOne(count, min_words) == count + 1 >= min_words

MeetsMinimumStrict(count, min_words) == count > min_words

MeetsMinimumNever(count, min_words) == FALSE

\* original_word_count >= min_words, new_word_count >= min_words,
\* final_count >= min_words
MeetsMinimum(count, min_words) == count >= min_words

ExpandDroppingArticle(article, addition) == addition

\* expanded_article = article + "\n\n" + additional_content
\* final_article = expanded_article + "\n\n" + more_content
Expand(article, addition) == AppendParagraph(article, addition)

WordsNeededNoBuffer(min_words, count) == min_words - count

\* words_needed = min_words - original_word_count + 50
\* still_needed = min_words - new_word_count + 50
WordsNeeded(min_words, count) == min_words - count + Buffer

\* What ensure_word_count returns and what it asked of the generator:
\* ret, the article returned; calls, the number of call_claude calls made;
\* asked, the number of words each call asked for; sanitized, the article
\* after the cleaning loop (None when the function returned before it);
\* expanded, the article after round 1 appended its supplement (None when
\* round 1 appended nothing).
EnforcerOutcome(ret, calls, asked, sanitized, expanded) ==
    [ret |-> ret, calls |-> calls, asked |-> asked,
     sanitized |-> sanitized, expanded |-> expanded]

\* ensure_word_count(article, min_words, max_words, ...), where r1 and r2
\* are what call_claude returns for the round-1 and the round-2 call (a
\* text, the empty string, or None).
ensure_word_count(article, min_words, max_words, r1, r2) ==
    IF ~Truthy(article) THEN EnforcerOutcome(article, 0, <<>>, None, None)
    ELSE
    LET sanitized == EnforcerClean(article)
        original_word_count == WordCount(sanitized)
        words_needed == WordsNeeded(min_words, original_word_count)
        expanded_article == Expand(sanitized, FilterRound1(r1))
        new_word_count == WordCount(expanded_article)
        still_needed == WordsNeeded(min_words, new_word_count)
        final_article == Expand(expanded_article, FilterRound2(r2))
    IN  IF MeetsMinimum(original_word_count, min_words)
        THEN EnforcerOutcome(sanitized, 0, <<>>, sanitized, None)
        ELSE IF ~Truthy(r1)
        THEN EnforcerOutcome(sanitized, 1, <<words_needed>>, sanitized, None)
        ELSE IF MeetsMinimum(new_word_count, min_words)
        THEN EnforcerOutcome(expanded_article, 1, <<words_needed>>,
                             sanitized, expanded_article)
        ELSE IF ~Truthy(r2)
        THEN EnforcerOutcome(sanitized, 2, <<words_needed, still_needed>>,
                             sanitized, expanded_article)
        ELSE EnforcerOutcome(final_article, 2, <<words_needed, still_needed>>,
                             sanitized, expanded_article)

\* ------------------------------------------------------ generation gateway
\* str(e) of the exceptions the provider call raises.
ErrorMessages ==
    {"Error code: 529 - overloaded_error", "Error code: 529", "Overloaded",
     "Error code: 401 - invalid x-api-key", "Connection error."}

\* "529" in error_message
Contains529(error_message) ==
    error_message \in {"Error code: 529 - overloaded_error", "Error code: 529"}

\* "overloaded" in error_message.lower()
LowerContainsOverloaded(error_message) ==
    error_message \in {"Error code: 529 - overloaded_error", "Overloaded"}

IsOverloadError(error_message) ==
    Contains529(error_message) \/ LowerContainsOverloaded(error_message)

WaitTimeLinear(attempt) == (attempt + 1) * 5

\* wait_time = (2 ** attempt) * 5
WaitTime(attempt) == (2 ^ attempt) * 5

AfterErrorRetryAll(error_message, attempt, retry_count) ==
    IF attempt < retry_count - 1 THEN "sleep" ELSE "fail"

AfterErrorGivesUpEarly(error_message, attempt, retry_count) ==
    IF IsOverloadError(error_message) /\ attempt < retry_count - 2
    THEN "sleep" ELSE "fail"

\* The except branch of call_claude: sleep and go round again, or return
\* None.
AfterError(error_message, attempt, retry_count) ==
    IF IsOverloadError(error_message)
    THEN IF attempt < retry_count - 1 THEN "sleep" ELSE "fail"
    ELSE "fail"

\* What one provider call does: it returns a text or raises.
Returned(text) == [ok |-> TRUE, text |-> text, msg |-> ""]
Raised(msg) == [ok |-> FALSE, text |-> None, msg |-> msg]

\* The entries of the gateway's trace.
CallEvent(attempt, out) == [ev |-> "call", attempt |-> attempt, out |-> out, secs |-> 0]
SleepEvent(attempt, secs) ==
    [ev |-> "sleep", attempt |-> attempt, out |-> Raised(""), secs |-> secs]

\* ----------------------------------------------------------- blog history
\* Keep only last 10 entries.
HistoryCap == 10

HistoryEntry(timestamp, title, articles, keywords, id) ==
    [timestamp |-> timestamp, title |-> title, articles |-> articles,
     keywords |-> keywords, id |-> id]

InsertAtEnd(history, entry) == Append(history, entry)

\* st.session_state.blog_history.insert(0, history_entry)
InsertAtFront(history, entry) == <<entry>> \o history

\* save_to_history(title, articles, keywords, timestamp): the new value of
\* st.session_state.blog_history.
save_to_history(history, title, articles, keywords, timestamp) ==
    LET history_entry ==
            HistoryEntry(timestamp, title, articles, keywords, Len(history))
        inserted == InsertAtFront(history, history_entry)
    IN  IF Len(inserted) > HistoryCap
        THEN SubSeq(inserted, 1, HistoryCap)
        ELSE inserted

\* -------------------------------------------------------- revision engine
\* any(phrase in revised_content.lower() for phrase in ["rest remains",
\* "continue with", "remaining sections", "rest of the article",
\* "continues unchanged", "[remaining", "would continue"])
HasElisionNever(content) == FALSE

HasElision(content) == \E i \in 1..Len(content) : content[i].k = "elide"

\* content.replace('[REVISED]', '<span style="color: #0066CC;">')
\*        .replace('[/REVISED]', '</span>')
ReplaceMarkers(line) == IF line.k = "rev" THEN [line EXCEPT !.k = "span"] ELSE line

process_revision_colors(content) ==
    IF ~Truthy(content) THEN content
    ELSE [i \in 1..Len(content) |-> ReplaceMarkers(content[i])]

RevisedContentKeepsFirst(first, second) == first

\* revised_content after the truncation check: the corrective response
\* replaces the first one that holds an elision phrase.
RevisedContent(first, second) == IF HasElision(first) THEN second ELSE first

\* revise_article(original_article, ...), where first and second are what
\* call_claude returns for the revision prompt and for the corrective
\* prompt: ret is what it returns, calls the call_claude calls it made.
revise_article(original_article, first, second) ==
    IF Truthy(first)
    THEN [ret |-> process_revision_colors(RevisedContent(first, second)),
          calls |-> IF HasElision(first) THEN 2 ELSE 1]
    ELSE [ret |-> None, calls |-> 1]

StoreRevisedUnguarded(articles, variant, revised) ==
    [articles EXCEPT ![variant] = revised]

\* if revised_uk: st.session_state.current_articles['UK'] = revised_uk
StoreRevised(articles, variant, revised) ==
    IF Truthy(revised) THEN [articles EXCEPT ![variant] = revised] ELSE articles

\* --------------------------------------------------------- keyword merge
\* A keyword, or one comma-separated item of the extra-keywords string, is
\* a record [w, up, pad]: w is the keyword in lower case without
\* surrounding white space, up says whether the string holds capital
\* letters ("Hiring" against "hiring"), pad whether white space surrounds
\* it (" hiring" against "hiring").  w = "" is an item without a keyword.
Keyword(w, up, pad) == [w |-> w, up |-> up, pad |-> pad]

\* kw.strip()
KwStrip(kw) == [kw EXCEPT !.pad = FALSE]

\* kw.lower()
KwLower(kw) == [kw EXCEPT !.up = FALSE]

\* custom_keywords.split(","): the string is kept as its items; the empty
\* string is the one item "".
EmptyExtras == <<Keyword("", FALSE, FALSE)>>

\* The elements of a list.
Range(list) == {list[i] : i \in 1..Len(list)}

\* [kw.strip().lower() for kw in custom_keywords.split(",") if kw.strip()]
AdditionalKeywords(custom_keywords) ==
    LET kept == SelectSeq(custom_keywords, LAMBDA kw : KwStrip(kw).w # "")
    IN  [i \in 1..Len(kept) |-> KwLower(KwStrip(kept[i]))]

\* [kw.lower() for kw in base_keywords]
LowerAll(base_keywords) ==
    [i \in 1..Len(base_keywords) |-> KwLower(base_keywords[i])]

ShouldAppendAlways(kw, base_keywords_lower) == TRUE

\* if kw not in base_keywords_lower
ShouldAppend(kw, base_keywords_lower) == kw \notin Range(base_keywords_lower)

\* The loop of generate_prompt: base_keywords_lower is computed once,
\* before the loop, and base_keywords grows by append.
RECURSIVE PromptMergeLoop(_, _, _, _)
PromptMergeLoop(additional_keywords, i, base_keywords, base_keywords_lower) ==
    IF i > Len(additional_keywords) THEN base_keywords
    ELSE IF ShouldAppend(additional_keywords[i], base_keywords_lower)
    THEN PromptMergeLoop(additional_keywords, i + 1,
                         Append(base_keywords, additional_keywords[i]),
                         base_keywords_lower)
    ELSE PromptMergeLoop(additional_keywords, i + 1, base_keywords,
                         base_keywords_lower)

\* The loop of generate_title_only: the lower-case list is computed anew
\* from base_keywords for every keyword.
RECURSIVE TitleMergeLoop(_, _, _)
TitleMergeLoop(additional_keywords, i, base_keywords) ==
    IF i > Len(additional_keywords) THEN base_keywords
    ELSE IF KwLower(additional_keywords[i]) \notin Range(LowerAll(base_keywords))
    THEN TitleMergeLoop(additional_keywords, i + 1,
                        Append(base_keywords, additional_keywords[i]))
    ELSE TitleMergeLoop(additional_keywords, i + 1, base_keywords)

\* A client profile as yaml.safe_load returns it: has says whether the
\* "keywords" key is present, keywords is the list under it.
ClientCfg(has, keywords) == [has |-> has, keywords |-> keywords]

\* client_cfg.get("keywords", []): the list of the profile itself, or a
\* new empty list when the key is absent.
GetKeywords(cfg) == IF cfg.has THEN cfg.keywords ELSE <<>>

\* if custom_keywords:
ExtrasGiven(custom_keywords) == custom_keywords # EmptyExtras

\* The keyword part of generate_prompt(..., client_cfg, custom_keywords,
\* ...): keywords is the list it returns, cfg the profile afterwards (the
\* appends go to the list object of the profile when the key is present).
generate_prompt(cfg, custom_keywords) ==
    LET base_keywords == GetKeywords(cfg)
        merged == IF ExtrasGiven(custom_keywords)
                  THEN PromptMergeLoop(AdditionalKeywords(custom_keywords), 1,
                                       base_keywords, LowerAll(base_keywords))
                  ELSE base_keywords
    IN  [keywords |-> merged,
         cfg |-> IF cfg.has THEN ClientCfg(TRUE, merged) ELSE cfg]

\* The keyword part of generate_title_only(topic, client_cfg,
\* custom_keywords).
generate_title_only(cfg, custom_keywords) ==
    LET base_keywords == GetKeywords(cfg)
        merged == IF ExtrasGiven(custom_keywords)
                  THEN TitleMergeLoop(AdditionalKeywords(custom_keywords), 1,
                                      base_keywords)
                  ELSE base_keywords
    IN  [keywords |-> merged,
         cfg |-> IF cfg.has THEN ClientCfg(TRUE, merged) ELSE cfg]

\* One resolution of the keyword list: by which function, and the list.
Resolved(fn, keywords) == [fn |-> fn, keywords |-> keywords]

\* ------------------------------------------------------ marker translation
\* For the marker translation a string is the sequence of its atoms, each
\* atom standing for the characters of its name: "<", ">", the markers
\* "[REVISED]" and "[/REVISED]", and the bracket-free texts "New",
\* "span style=\"color: #0066CC;\"" and "/span".  The string is the atoms
\* written one after another; the empty string has no atom.
SpanOpen == <<"<", "span style=\"color: #0066CC;\"", ">">>

SpanClose == <<"<", "/span", ">">>

\* content.replace('[REVISED]', '<span style="color: #0066CC;">')
\*        .replace('[/REVISED]', '</span>'), from the i-th atom on.
RECURSIVE ReplaceMarkerAtoms(_, _)
ReplaceMarkerAtoms(content, i) ==
    IF i > Len(content) THEN <<>>
    ELSE (CASE content[i] = "[REVISED]" -> SpanOpen
            [] content[i] = "[/REVISED]" -> SpanClose
            [] OTHER -> <<content[i]>>)
         \o ReplaceMarkerAtoms(content, i + 1)

\* process_revision_colors(content) on a string of atoms (`if not content:
\* return content` returns the empty string as it is).
ProcessRevisionColors(content) ==
    IF content = <<>> THEN content ELSE ReplaceMarkerAtoms(content, 1)

\* The end of the match of '<[^>]+>' that starts at the i-th atom, 0 when
\* there is none: the atom is "<", a ">" follows, and the first ">" that
\* follows is not the very next character.
TagEnd(text, i) ==
    LET closers == {j \in (i + 1)..Len(text) : text[j] = ">"}
    IN  IF text[i] # "<" \/ closers = {} THEN 0
        ELSE LET j == CHOOSE j \in closers : \A k \in closers : j <= k
             IN  IF j = i + 1 THEN 0 ELSE j

\* re.sub(r'<[^>]+>', '', text), from the i-th atom on: the matches are
\* taken from left to right and removed.
RECURSIVE SubTags(_, _)
SubTags(text, i) ==
    IF i > Len(text) THEN <<>>
    ELSE IF TagEnd(text, i) # 0 THEN SubTags(text, TagEnd(text, i) + 1)
    ELSE <<text[i]>> \o SubTags(text, i + 1)

\* strip_html_tags(text)
strip_html_tags(text) == IF text = <<>> THEN text ELSE SubTags(text, 1)

\* ------------------------------------------------------ word-count band
\* The default band.
DefaultBand == <<750, 1500>>

\* The band string is kept as word_count_range.split('-') returns it; a
\* part is a record [int, val]: int says whether int(part) succeeds, val
\* is its value ("750", " 750 "), and 0 for a part that is no integer
\* ("", "abc").
BandPart(int, val) == [int |-> int, val |-> val]

\* try: min_words, max_words = map(int, word_range.split('-'))
\* except: min_words, max_words = 750, 1500
ParseBand(word_range) ==
    IF Len(word_range) = 2 /\ word_range[1].int /\ word_range[2].int
    THEN <<word_range[1].val, word_range[2].val>>
    ELSE DefaultBand

\* ---------------------------------------------------------- article preview
\* '<span style="color:' in articles['UK']
HasColorSpan(article) == \E i \in 1..Len(article) : article[i].k = "span"

\* len(re.sub(r'<[^>]+>', '', article).split()): without its tags a
\* highlighted line is the one word "New"; no other line holds a tag.
TagFreeWordCount(article) ==
    LET plain == [i \in 1..Len(article) |->
                     IF article[i].k = "span"
                     THEN [article[i] EXCEPT !.k = "text"] ELSE article[i]]
    IN  WordCount(plain)

\* One tab of the preview: the text handed to st.markdown and the number
\* shown as "Word Count".
Preview(article) ==
    IF HasColorSpan(article)
    THEN [shown |-> article, count |-> TagFreeWordCount(article)]
    ELSE LET article_display == clean_article_for_display(article)
         IN  [shown |-> article_display, count |-> WordCount(article_display)]

\* ------------------------------------------------------------- submission
\* The order in which the submission generates the variants: the UK block
\* comes first in the script, the US block second.
VariantOrderUSFirst == <<"US", "UK">>

VariantOrder == <<"UK", "US">>

\* A call_claude call of the submission: for which variant, and round 0 for
\* the generation call, 1 and 2 for the expansion rounds.
Call(variant, round) == [variant |-> variant, round |-> round]

\* The entries of the submission's trace: a call issued, a call returned
\* with its reply, ensure_word_count returned and its article put into
\* articles, save_to_history called.
IssueEvent(variant, round) ==
    [ev |-> "issue", variant |-> variant, round |-> round, reply |-> None]

ReturnEvent(variant, round, reply) ==
    [ev |-> "return", variant |-> variant, round |-> round, reply |-> reply]

EnforcedEvent(variant) ==
    [ev |-> "enforced", variant |-> variant, round |-> 0, reply |-> None]

HistoryEvent == [ev |-> "history", variant |-> "-", round |-> 0, reply |-> None]

AfterRoundThrice(round, ok, met) == IF round < 3 /\ ok /\ ~met THEN round + 1 ELSE 0

\* What ensure_word_count does when the call of an expansion round has
\* returned: the round to issue next, or 0 to return.  Round 2 is issued
\* only inside `if additional_content:` of round 1 and only when the
\* minimum is still not met; nothing follows round 2.
AfterRound(round, ok, met) == IF round = 1 /\ ok /\ ~met THEN 2 ELSE 0

\* The empty dict of articles: no variant has one.
NoArticles == [UK |-> None, US |-> None]

ShouldSaveAlways(arts) == TRUE

\* if articles:
ShouldSave(arts) == arts # NoArticles

\* The first position from s on whose variant is selected, or one past
\* the last position: `if generate_uk:`, `if generate_us:`.
RECURSIVE SkipUnselected(_, _)
SkipUnselected(s, selected) ==
    IF s <= Len(VariantOrder) /\ ~selected[VariantOrder[s]]
    THEN SkipUnselected(s + 1, selected) ELSE s

\* ---------------------------------------------------------- session, gate
Min(a, b) == IF a <= b THEN a ELSE b

\* st.session_state and st.secrets are maps from key to value; a key that
\* is not set is not in the domain.
Has(ss, key) == key \in DOMAIN ss

\* ss.get(key, default)
Get(ss, key, default) == IF Has(ss, key) THEN ss[key] ELSE default

\* ss[key] = value
Put(ss, key, value) ==
    [k \in DOMAIN ss \cup {key} |-> IF k = key THEN value ELSE ss[k]]

\* del ss[key]
Del(ss, key) == [k \in DOMAIN ss \ {key} |-> ss[k]]

NoKeys == <<>>

\* password_entered(), the Login button's handler.
password_entered(ss, secrets) ==
    IF ~Has(ss, "password_input") THEN ss
    ELSE IF Has(secrets, "password")
    THEN IF ss["password_input"] = secrets["password"]
         THEN Del(Put(ss, "password_correct", TRUE), "password_input")
         ELSE Put(ss, "password_correct", FALSE)
    ELSE Put(ss, "password_correct", FALSE)

check_passwordLenient(ss) ==
    ~Has(ss, "password_correct") \/ ss["password_correct"]

\* What check_password() returns in a run where Login is not clicked: False
\* with the login form when the flag is not set or is False, else True.
check_password(ss) == Has(ss, "password_correct") /\ ss["password_correct"]

\* The articles dicts are Python objects: the session and the history
\* entries hold references to them. A reference is the position of the dict
\* in the list of the dicts the submissions built, and 0 is the empty dict
\* that the session initialisation stores.
Deref(dicts, ref) == IF ref = 0 THEN NoArticles ELSE dicts[ref]

\* articles.get('UK', ''), articles.get('US', '')
DictGet(articles, variant) ==
    IF articles[variant] = None THEN EmptyString ELSE articles[variant]

\* st.session_state.current_articles['UK'] = revised_uk: the dict that
\* current_articles refers to is changed in place.
StoreRevisedInPlace(dicts, ref, variant, revised) ==
    [dicts EXCEPT ![ref] = [@ EXCEPT ![variant] = revised]]

\* if 'blog_history' not in st.session_state: ... = []
\* if 'current_articles' not in st.session_state: ... = {}
SessionInit(ss) ==
    LET s1 == IF Has(ss, "blog_history") THEN ss ELSE Put(ss, "blog_history", <<>>)
    IN  IF Has(s1, "current_articles") THEN s1 ELSE Put(s1, "current_articles", 0)

\* The arguments export_docx is called with; the preview shows the same
\* title and keywords.
Export(title, article_uk, article_us, keywords) ==
    [title |-> title, UK |-> article_uk, US |-> article_us, keywords |-> keywords]

NoExport == Export("", None, None, <<>>)

\* The display section: if st.session_state.current_articles: ...
\* export_docx(st.session_state.get('current_title', 'Blog Article'),
\*             articles.get('UK', ''), articles.get('US', ''),
\*             st.session_state.get('current_keywords', []), ...)
Render(ss, dicts) ==
    LET articles == Deref(dicts, ss["current_articles"])
    IN  IF articles = NoArticles THEN NoExport
        ELSE Export(Get(ss, "current_title", "Blog Article"),
                    DictGet(articles, "UK"), DictGet(articles, "US"),
                    Get(ss, "current_keywords", <<>>))

\* What one script run leaves: the session, the dicts, what the display
\* section exported, what the run did (effects: "call" a generator call,
\* "history" a history insertion, "articles" a change of the current
\* articles), and whether it passed the gate.
RunResult(ss, dicts, export, effects, passed) ==
    [ss |-> ss, dicts |-> dicts, export |-> export, effects |-> effects,
     passed |-> passed]

\* st.text_input("Password", ..., key="password_input"): the login form's
\* field registers its key in the session, empty until something is typed.
LoginForm(ss) ==
    IF Has(ss, "password_input") THEN ss ELSE Put(ss, "password_input", "")

\* if not check_password(): st.stop(), the login form having been shown.
Stopped(ss, dicts) == RunResult(LoginForm(ss), dicts, NoExport, {}, FALSE)

\* A run in which no button is clicked, as st.rerun() starts it.
plain_run(ss0, dicts) ==
    IF ~check_password(ss0) THEN Stopped(ss0, dicts)
    ELSE LET ss == SessionInit(ss0)
         IN  RunResult(ss, dicts, Render(ss, dicts), {}, TRUE)

\* The run in which Login is clicked with the password typed in.
login_run(ss0, dicts, secrets, typed) ==
    LET ss == password_entered(Put(ss0, "password_input", typed), secrets)
    IN  IF Has(ss, "password_correct")
        THEN [plain_run(ss, dicts) EXCEPT !.passed = FALSE]
        ELSE Stopped(ss, dicts)

\* The run in which Logout is clicked: every key is deleted, and the rerun
\* stops at the login form, which registers its empty field.
logout_run(ss0, dicts) ==
    IF ~check_password(ss0) THEN Stopped(ss0, dicts)
    ELSE [plain_run(NoKeys, <<>>) EXCEPT !.passed = TRUE]

\* The run in which a history button is clicked.
load_run(ss0, dicts, entry) ==
    IF ~check_password(ss0) THEN Stopped(ss0, dicts)
    ELSE LET ss == Put(Put(SessionInit(ss0), "current_articles", entry.articles),
                       "loaded_from_history", TRUE)
         IN  [plain_run(ss, dicts) EXCEPT !.effects = {"articles"}]

\* The run in which the form is submitted with a title: articles is the
\* dict the generation built, empty when the generation failed.
submit_run(ss0, dicts, title, keywords, articles, timestamp) ==
    IF ~check_password(ss0) THEN Stopped(ss0, dicts)
    ELSE LET ss1 == SessionInit(ss0)
         IN  IF articles = NoArticles
             THEN RunResult(ss1, dicts, Render(ss1, dicts), {"call"}, TRUE)
             ELSE
             LET made == Append(dicts, articles)
                 ref == Len(made)
                 ss2 == Put(Put(Put(ss1, "current_articles", ref),
                                "current_keywords", keywords),
                            "current_title", title)
                 ss3 == Put(ss2, "blog_history",
                            save_to_history(ss2["blog_history"], title, ref,
                                            keywords, timestamp))
             IN  RunResult(ss3, made, Render(ss3, made),
                           {"call", "history", "articles"}, TRUE)

\* The run in which "Revise UK Version" or "Revise US Version" is clicked
\* with a request typed in: revised is what revise_article returned.
revise_run(ss0, dicts, variant, revised) ==
    IF ~check_password(ss0) THEN Stopped(ss0, dicts)
    ELSE LET ss == SessionInit(ss0)
         IN  IF Truthy(revised)
             THEN LET changed == StoreRevisedInPlace(dicts, ss["current_articles"],
                                                      variant, revised)
                  IN  [plain_run(ss, changed) EXCEPT !.effects = {"call", "articles"}]
             ELSE RunResult(ss, dicts, Render(ss, dicts), {"call"}, TRUE)

\* ------------------------------------------------------------------ state
VARIABLES
    san_pc,     \* sanitizer run: "input" | "done"
    san_x,      \* the text given to clean_article_for_display
    san_y,      \* clean_article_for_display(san_x)
    san_z,      \* clean_article_for_display(san_y)
    enf_pc,     \* enforcer run: "input" | "done"
    enf_article,\* the article given to ensure_word_count
    enf_band,   \* <<min_words, max_words>>
    enf_replies,\* what call_claude returned for the calls made, in order
    enf_out,    \* the EnforcerOutcome of the run
    gw_pc,      \* call_claude: "loop" | "sleep" | "done"
    gw_retry,   \* retry_count
    gw_tokens,  \* max_tokens
    gw_attempt, \* the loop variable attempt
    gw_log,     \* the provider calls made and the sleeps taken, in order
    gw_result,  \* what call_claude returned
    blog_history, \* st.session_state.blog_history
    hist_log,   \* the entry every save_to_history call built, oldest first
    rev_articles, \* st.session_state.current_articles: variant -> article
    rev_last,   \* the last revision interaction
    kw_file,    \* the client profile as clients/<name>.yaml holds it
    client_cfg, \* the profile object loaded for the request
    extra_keywords, \* the "Any specific Keywords" input
    kw_resolved,\* the keyword lists resolved from client_cfg, in order
    mk_pc,      \* marker translation: "input" | "done"
    mk_response,\* the generator response given to process_revision_colors
    mk_colored, \* process_revision_colors(mk_response)
    mk_plain,   \* strip_html_tags(mk_colored)
    band_pc,    \* band parsing: "input" | "done"
    word_count_range, \* the "Word Count Range" input
    band_enforcer, \* <<min_words_debug, max_words_debug>> of the submission
    band_prompt,\* <<min_words, max_words>> of generate_prompt
    pv_pc,      \* preview: "empty" | "stored" | "rendered"
    pv_article, \* the article of the tab in st.session_state.current_articles
    pv_origin,  \* "generated" | "revised": what stored pv_article
    pv_out,     \* the Preview of the tab
    sub_pc,     \* submission: "form" | "gen" | "round" | "done"
    generate,   \* the check boxes generate_uk and generate_us
    sub_band,   \* <<min_words_debug, max_words_debug>>
    sub_stage,  \* the position in VariantOrder of the variant being generated
    sub_round,  \* the expansion round whose call is in flight, else 0
    sub_article,\* ensure_word_count's article after its cleaning loop
    sub_expanded, \* ensure_word_count's expanded_article, None before round 1
    sub_articles, \* the dict articles of the submission: variant -> article
    sub_inflight, \* the call_claude calls issued and not yet returned
    sub_log,    \* the calls issued and returned and the history appends
    session_state, \* st.session_state: key -> value
    st_secrets, \* st.secrets: key -> value
    article_dicts, \* the articles dicts the submissions built, by reference
    ses_last,   \* the last script run: what was clicked and what it did
    ses_export  \* what the last script run exported and displayed

san_vars == <<san_pc, san_x, san_y, san_z>>

enf_vars == <<enf_pc, enf_article, enf_band, enf_replies, enf_out>>

gw_vars == <<gw_pc, gw_retry, gw_tokens, gw_attempt, gw_log, gw_result>>

hist_vars == <<blog_history, hist_log>>

rev_vars == <<rev_articles, rev_last>>

kw_vars == <<kw_file, client_cfg, extra_keywords, kw_resolved>>

mk_vars == <<mk_pc, mk_response, mk_colored, mk_plain>>

band_vars == <<band_pc, word_count_range, band_enforcer, band_prompt>>

pv_vars == <<pv_pc, pv_article, pv_origin, pv_out>>

sub_vars == <<sub_pc, generate, sub_band, sub_stage, sub_round, sub_article,
             sub_expanded, sub_articles, sub_inflight, sub_log>>

ses_vars == <<session_state, st_secrets, article_dicts, ses_last, ses_export>>

vars == <<san_vars, enf_vars, gw_vars, hist_vars, rev_vars, kw_vars, mk_vars,
          band_vars, pv_vars, sub_vars, ses_vars>>

\* What the actions of each component leave alone: the other components.
san_rest == <<enf_vars, gw_vars, hist_vars, rev_vars, kw_vars, mk_vars,
              band_vars, pv_vars, sub_vars, ses_vars>>

enf_rest == <<san_vars, gw_vars, hist_vars, rev_vars, kw_vars, mk_vars,
              band_vars, pv_vars, sub_vars, ses_vars>>

gw_rest == <<san_vars, enf_vars, hist_vars, rev_vars, kw_vars, mk_vars,
             band_vars, pv_vars, sub_vars, ses_vars>>

hist_rest == <<san_vars, enf_vars, gw_vars, rev_vars, kw_vars, mk_vars,
               band_vars, pv_vars, sub_vars, ses_vars>>

rev_rest == <<san_vars, enf_vars, gw_vars, hist_vars, kw_vars, mk_vars,
              band_vars, pv_vars, sub_vars, ses_vars>>

kw_rest == <<san_vars, enf_vars, gw_vars, hist_vars, rev_vars, mk_vars,
             band_vars, pv_vars, sub_vars, ses_vars>>

mk_rest == <<san_vars, enf_vars, gw_vars, hist_vars, rev_vars, kw_vars,
             band_vars, pv_vars, sub_vars, ses_vars>>

band_rest == <<san_vars, enf_vars, gw_vars, hist_vars, rev_vars, kw_vars,
               mk_vars, pv_vars, sub_vars, ses_vars>>

pv_rest == <<san_vars, enf_vars, gw_vars, hist_vars, rev_vars, kw_vars,
             mk_vars, band_vars, sub_vars, ses_vars>>

sub_rest == <<rev_last, hist_log, san_vars, enf_vars, gw_vars, kw_vars,
              mk_vars, band_vars, pv_vars,
              ses_vars>>

ses_rest == <<san_vars, enf_vars, gw_vars, hist_vars, rev_vars, kw_vars,
              mk_vars, band_vars, pv_vars, sub_vars>>

\* Each specification leaves the other components at rest.
SanIdle == san_pc = "idle" /\ san_x = None /\ san_y = None /\ san_z = None

EnfIdle ==
    /\ enf_pc = "idle"
    /\ enf_article = None
    /\ enf_band = <<0, 0>>
    /\ enf_replies = <<>>
    /\ enf_out = EnforcerOutcome(None, 0, <<>>, None, None)

GwIdle ==
    /\ gw_pc = "idle"
    /\ gw_retry = 0
    /\ gw_tokens = 0
    /\ gw_attempt = 0
    /\ gw_log = <<>>
    /\ gw_result = None

HistIdle == blog_history = <<>> /\ hist_log = <<>>

\* A revision interaction: the variant revised, the responses of the calls
\* made, their number, what revise_article returned.
Interaction(variant, first, second, calls, ret) ==
    [variant |-> variant, first |-> first, second |-> second,
     calls |-> calls, ret |-> ret]

RevIdle ==
    /\ rev_articles = NoArticles
    /\ rev_last = Interaction("none", None, None, 0, None)

KwIdle ==
    /\ kw_file = ClientCfg(FALSE, <<>>)
    /\ client_cfg = ClientCfg(FALSE, <<>>)
    /\ extra_keywords = EmptyExtras
    /\ kw_resolved = <<>>

MkIdle ==
    mk_pc = "idle" /\ mk_response = <<>> /\ mk_colored = <<>> /\ mk_plain = <<>>

BandIdle ==
    /\ band_pc = "idle"
    /\ word_count_range = <<>>
    /\ band_enforcer = <<0, 0>>
    /\ band_prompt = <<0, 0>>

NoPreview == [shown |-> None, count |-> 0]

PvIdle ==
    /\ pv_pc = "idle"
    /\ pv_article = None
    /\ pv_origin = "none"
    /\ pv_out = NoPreview

SubIdle ==
    /\ sub_pc = "idle"
    /\ generate = [UK |-> FALSE, US |-> FALSE]
    /\ sub_band = <<0, 0>>
    /\ sub_stage = 0
    /\ sub_round = 0
    /\ sub_article = None
    /\ sub_expanded = None
    /\ sub_articles = NoArticles
    /\ sub_inflight = {}
    /\ sub_log = <<>>

\* A script run: what was clicked (kind), with what input, the session
\* before it, what it did and whether it passed the gate.
Run(kind, input, before, effects, passed) ==
    [kind |-> kind, input |-> input, before |-> before, effects |-> effects,
     passed |-> passed]

SesIdle ==
    /\ session_state = NoKeys
    /\ st_secrets = NoKeys
    /\ article_dicts = <<>>
    /\ ses_last = Run("none", None, NoKeys, {}, FALSE)
    /\ ses_export = NoExport

\* ------------------------------------------- specification: the sanitizer
SanAlphabet ==
    {Line("text", FALSE), Line("blank", FALSE), Line("blank", TRUE),
     Line("sep", FALSE), Line("sep", TRUE), Line("wcmeta", FALSE),
     Line("expmeta", FALSE)}

SanInit ==
    /\ san_pc = "input"
    /\ san_x \in TextsUpTo(SanAlphabet, MaxSanLines)
    /\ san_y = None
    /\ san_z = None
    /\ EnfIdle /\ GwIdle /\ HistIdle /\ RevIdle /\ KwIdle
    /\ MkIdle /\ BandIdle /\ PvIdle /\ SubIdle /\ SesIdle

\* The text is sanitized, and the result sanitized again.
Sanitize ==
    /\ san_pc = "input"
    /\ san_pc' = "done"
    /\ san_y' = clean_article_for_display(san_x)
    /\ san_z' = clean_article_for_display(san_y')
    /\ UNCHANGED <<san_x, san_rest>>

SanNext == Sanitize

SanitizerSpec == SanInit /\ [][SanNext]_vars

\* -------------------------------------------- specification: the enforcer
ArticleAlphabet ==
    {Line("text", FALSE), Line("blank", FALSE), Line("sep", FALSE),
     Line("wcmeta", FALSE), Line("expmeta", FALSE)}

ReplyAlphabet == {Line("text", FALSE), Line("label", FALSE), Line("para", FALSE)}

\* What call_claude can return: a text, the empty string, or None.
GatewayReturns ==
    TextsUpTo(ReplyAlphabet, MaxReplyLines) \cup {EmptyString, None}

\* ensure_word_count(article, min_words, max_words, ...) is entered.
EnfInit ==
    /\ enf_pc = "input"
    /\ enf_article \in TextsUpTo(ArticleAlphabet, MaxArticleLines)
    /\ enf_band \in {<<mn, mx>> \in (0..MaxMinWords) \X (0..(MaxMinWords + 1)) :
                        mx \in {mn, mn + 1}}
    /\ enf_replies = <<>>
    /\ enf_out = EnforcerOutcome(None, 0, <<>>, None, None)
    /\ SanIdle /\ GwIdle /\ HistIdle /\ RevIdle /\ KwIdle
    /\ MkIdle /\ BandIdle /\ PvIdle /\ SubIdle /\ SesIdle

\* One run of ensure_word_count, whatever the generator returns: r1 for the
\* round-1 call, r2 for the round-2 call when that call is made.
Enforce ==
    /\ enf_pc = "input"
    /\ \E r1 \in GatewayReturns :
         \E r2 \in IF ensure_word_count(enf_article, enf_band[1], enf_band[2],
                                        r1, None).calls = 2
                    THEN GatewayReturns ELSE {None} :
           LET out == ensure_word_count(enf_article, enf_band[1], enf_band[2], r1, r2)
           IN  /\ enf_out' = out
               /\ enf_replies' = SubSeq(<<r1, r2>>, 1, out.calls)
    /\ enf_pc' = "done"
    /\ UNCHANGED <<enf_article, enf_band, enf_rest>>

EnfNext == Enforce

EnforcerSpec == EnfInit /\ [][EnfNext]_vars

\* --------------------------------------------- specification: the gateway
\* The texts a successful provider call returns.
ProviderTexts == {<<Line("text", FALSE)>>, EmptyString}

ProviderOutcomes ==
    {Returned(t) : t \in ProviderTexts} \cup {Raised(m) : m \in ErrorMessages}

\* call_claude(prompt, max_tokens, retry_count) is entered.
GwInit ==
    /\ gw_pc = "loop"
    /\ gw_retry \in 0..MaxRetry
    /\ gw_tokens \in {8000, 4000, 2000}
    /\ gw_attempt = 0
    /\ gw_log = <<>>
    /\ gw_result = None
    /\ SanIdle /\ EnfIdle /\ HistIdle /\ RevIdle /\ KwIdle
    /\ MkIdle /\ BandIdle /\ PvIdle /\ SubIdle /\ SesIdle

\* One pass of the loop body: the provider call and what follows it.
GwAttempt ==
    /\ gw_pc = "loop"
    /\ gw_attempt < gw_retry
    /\ \E out \in ProviderOutcomes :
         /\ gw_log' = Append(gw_log, CallEvent(gw_attempt, out))
         /\ IF out.ok
            THEN gw_pc' = "done" /\ gw_result' = out.text
            ELSE IF AfterError(out.msg, gw_attempt, gw_retry) = "sleep"
            THEN gw_pc' = "sleep" /\ gw_result' = gw_result
            ELSE gw_pc' = "done" /\ gw_result' = None
    /\ UNCHANGED <<gw_retry, gw_tokens, gw_attempt, gw_rest>>

\* time.sleep(wait_time); continue
GwSleep ==
    /\ gw_pc = "sleep"
    /\ gw_log' = Append(gw_log, SleepEvent(gw_attempt, WaitTime(gw_attempt)))
    /\ gw_attempt' = gw_attempt + 1
    /\ gw_pc' = "loop"
    /\ UNCHANGED <<gw_retry, gw_tokens, gw_result, gw_rest>>

\* The loop ends without a return in its body: the final return None.
GwLoopEnds ==
    /\ gw_pc = "loop"
    /\ gw_attempt >= gw_retry
    /\ gw_pc' = "done"
    /\ gw_result' = None
    /\ UNCHANGED <<gw_retry, gw_tokens, gw_attempt, gw_log, gw_rest>>

GwNext == GwAttempt \/ GwSleep \/ GwLoopEnds

\* Each provider call returns and each sleep ends: the loop keeps running.
GatewaySpec == GwInit /\ [][GwNext]_vars /\ WF_vars(GwNext)

\* --------------------------------------------- specification: the history
Titles == {"Hiring trends", "Remote work"}

HistInit ==
    /\ blog_history = <<>>
    /\ hist_log = <<>>
    /\ SanIdle /\ EnfIdle /\ GwIdle /\ RevIdle /\ KwIdle
    /\ MkIdle /\ BandIdle /\ PvIdle /\ SubIdle /\ SesIdle

\* One submission records its blog: the articles are the dict the
\* submission built (named by the submission's number), the timestamp the
\* time of the submission.
SaveToHistory ==
    /\ Len(hist_log) < MaxInserts
    /\ \E title \in Titles :
         LET n == Len(hist_log) + 1
         IN  /\ blog_history' = save_to_history(blog_history, title, n, <<"hiring">>, n)
             /\ hist_log' = Append(hist_log, HistoryEntry(n, title, n, <<"hiring">>,
                                                         Len(blog_history)))
    /\ UNCHANGED <<hist_rest>>

HistNext == SaveToHistory

HistorySpec == HistInit /\ [][HistNext]_vars

\* -------------------------------- specification: the revision handlers
RevisionAlphabet == {Line("text", FALSE), Line("elide", FALSE), Line("rev", FALSE)}

\* What call_claude can return for a revision prompt.
RevisionReturns ==
    TextsUpTo(RevisionAlphabet, MaxRevisionLines) \cup {EmptyString, None}

\* The articles a submission left in the session: either variant or both.
SubmittedArticles ==
    {<<Line("text", FALSE)>>,
     <<Line("text", FALSE), EmptyLine, Line("text", FALSE)>>}

RevInit ==
    /\ rev_articles \in {d \in [{"UK", "US"} -> SubmittedArticles \cup {None}] :
                            d # NoArticles}
    /\ rev_last = Interaction("none", None, None, 0, None)
    /\ SanIdle /\ EnfIdle /\ GwIdle /\ HistIdle /\ KwIdle
    /\ MkIdle /\ BandIdle /\ PvIdle /\ SubIdle /\ SesIdle

\* The "Revise UK Version" / "Revise US Version" button with a revision
\* request typed in: revise_article runs and its result, if any, is stored;
\* first and second are what call_claude returns for the revision call and,
\* when it is made, for the corrective call.
Revise(variant) ==
    /\ rev_articles # NoArticles
    /\ rev_articles[variant] # None
    /\ \E first \in RevisionReturns :
         \E second \in IF revise_article(rev_articles[variant], first, None).calls = 2
                        THEN RevisionReturns ELSE {None} :
           LET r == revise_article(rev_articles[variant], first, second)
           IN  /\ rev_articles' = StoreRevised(rev_articles, variant, r.ret)
               /\ rev_last' = Interaction(variant, first, second, r.calls, r.ret)
    /\ UNCHANGED <<rev_rest>>

ReviseUK == Revise("UK")

ReviseUS == Revise("US")

RevNext == ReviseUK \/ ReviseUS

RevisionSpec == RevInit /\ [][RevNext]_vars

\* ---------------------------------------- specification: the keyword merge
BaseKeywordAlphabet ==
    {Keyword("hiring", FALSE, FALSE), Keyword("hiring", TRUE, FALSE),
     Keyword("talent", FALSE, FALSE), Keyword("remote work", TRUE, FALSE)}

\* The items of "Remote Work, remote work, Hiring" and of "talent,, ".
ExtraItemAlphabet ==
    {Keyword("remote work", TRUE, FALSE), Keyword("remote work", FALSE, TRUE),
     Keyword("hiring", TRUE, TRUE), Keyword("talent", FALSE, FALSE),
     Keyword("", FALSE, FALSE), Keyword("", FALSE, TRUE)}

\* The profiles a client file can hold: with a keyword list, or without
\* the key.
ClientFiles ==
    {ClientCfg(TRUE, l) :
        l \in UNION {[1..m -> BaseKeywordAlphabet] : m \in 0..MaxBaseKeywords}}
    \cup {ClientCfg(FALSE, <<>>)}

\* load_client_config(client_name) has run for a request.
KwInit ==
    /\ kw_file \in ClientFiles
    /\ client_cfg = kw_file
    /\ extra_keywords \in UNION {[1..m -> ExtraItemAlphabet] : m \in 1..MaxExtraItems}
    /\ kw_resolved = <<>>
    /\ SanIdle /\ EnfIdle /\ GwIdle /\ HistIdle /\ RevIdle
    /\ MkIdle /\ BandIdle /\ PvIdle /\ SubIdle /\ SesIdle

\* The submission composes a prompt from the profile it loaded: the UK
\* prompt, then the US prompt.
ComposePrompt ==
    /\ Len(kw_resolved) < 2
    /\ \A i \in 1..Len(kw_resolved) : kw_resolved[i].fn = "prompt"
    /\ LET r == generate_prompt(client_cfg, extra_keywords)
       IN  /\ client_cfg' = r.cfg
           /\ kw_resolved' = Append(kw_resolved, Resolved("prompt", r.keywords))
    /\ UNCHANGED <<kw_file, extra_keywords, kw_rest>>

\* The "Generate Title" button composes the title prompt from the profile
\* it loaded.
SuggestTitle ==
    /\ kw_resolved = <<>>
    /\ LET r == generate_title_only(client_cfg, extra_keywords)
       IN  /\ client_cfg' = r.cfg
           /\ kw_resolved' = Append(kw_resolved, Resolved("title", r.keywords))
    /\ UNCHANGED <<kw_file, extra_keywords, kw_rest>>

KwNext == ComposePrompt \/ SuggestTitle

KeywordSpec == KwInit /\ [][KwNext]_vars

\* ------------------------------------ specification: marker translation
MarkerAtoms == {"<", ">", "New", "[REVISED]", "[/REVISED]"}

\* A generator response reaches process_revision_colors.
MkInit ==
    /\ mk_pc = "input"
    /\ mk_response \in UNION {[1..m -> MarkerAtoms] : m \in 0..MaxMarkerAtoms}
    /\ mk_colored = <<>>
    /\ mk_plain = <<>>
    /\ SanIdle /\ EnfIdle /\ GwIdle /\ HistIdle /\ RevIdle /\ KwIdle /\ BandIdle
    /\ PvIdle /\ SubIdle /\ SesIdle

\* The markers are translated for display and the result is stripped for
\* export.
TranslateAndStrip ==
    /\ mk_pc = "input"
    /\ mk_pc' = "done"
    /\ mk_colored' = ProcessRevisionColors(mk_response)
    /\ mk_plain' = strip_html_tags(mk_colored')
    /\ UNCHANGED <<mk_response, mk_rest>>

MkNext == TranslateAndStrip

MarkerSpec == MkInit /\ [][MkNext]_vars

\* ------------------------------------------ specification: band parsing
BandPartAlphabet ==
    {BandPart(TRUE, n) : n \in 0..MaxMinWords} \cup {BandPart(FALSE, 0)}

\* The form is submitted with some text in the "Word Count Range" input.
BandInit ==
    /\ band_pc = "input"
    /\ word_count_range \in UNION {[1..m -> BandPartAlphabet] : m \in 1..MaxBandParts}
    /\ band_enforcer = <<0, 0>>
    /\ band_prompt = <<0, 0>>
    /\ SanIdle /\ EnfIdle /\ GwIdle /\ HistIdle /\ RevIdle /\ KwIdle /\ MkIdle
    /\ PvIdle /\ SubIdle /\ SesIdle

\* The submission parses the band for the enforcer, and generate_prompt
\* parses it once more for the prompt.
ParseBandString ==
    /\ band_pc = "input"
    /\ band_pc' = "done"
    /\ band_enforcer' = ParseBand(word_count_range)
    /\ band_prompt' = ParseBand(word_count_range)
    /\ UNCHANGED <<word_count_range, band_rest>>

BandNext == ParseBandString

BandSpec == BandInit /\ [][BandNext]_vars

\* --------------------------------------- specification: article preview
GeneratedAlphabet ==
    {Line("text", FALSE), Line("wcmeta", FALSE), Line("expmeta", FALSE),
     Line("sep", FALSE)}

RevisedAlphabet ==
    {Line("text", FALSE), Line("rev", FALSE), Line("wcmeta", FALSE),
     Line("blank", FALSE)}

\* The session before the first submission: no article to show.
PvInit ==
    /\ pv_pc = "empty"
    /\ pv_article = None
    /\ pv_origin = "none"
    /\ pv_out = NoPreview
    /\ SanIdle /\ EnfIdle /\ GwIdle /\ HistIdle /\ RevIdle /\ KwIdle /\ MkIdle
    /\ BandIdle /\ SubIdle /\ SesIdle

\* A submission stores the article it generated: the generator's text as
\* ensure_word_count returns it, here for the band (1, 1) and with a round
\* 1, when the article is short, that yields nothing or one word.
PvStoreGenerated ==
    /\ pv_pc = "empty"
    /\ \E article \in TextsUpTo(GeneratedAlphabet, MaxPreviewLines),
          r1 \in {None, <<Line("text", FALSE)>>} :
         /\ Truthy(article)
         /\ pv_article' = ensure_word_count(article, 1, 1, r1, None).ret
    /\ pv_origin' = "generated"
    /\ pv_pc' = "stored"
    /\ UNCHANGED <<pv_out, pv_rest>>

\* A revision button stores what revise_article returns, if anything.
PvStoreRevised ==
    /\ pv_pc = "stored"
    /\ pv_origin = "generated"
    /\ \E first \in TextsUpTo(RevisedAlphabet, MaxPreviewLines) \cup {None} :
         LET revised == revise_article(pv_article, first, None).ret
         IN  /\ pv_article' = IF Truthy(revised) THEN revised ELSE pv_article
             /\ pv_origin' = IF Truthy(revised) THEN "revised" ELSE pv_origin
    /\ UNCHANGED <<pv_pc, pv_out, pv_rest>>

\* The script reaches the tabs and shows the stored article, the empty
\* string included: the display section tests the dict, not the article.
PvRender ==
    /\ pv_pc = "stored"
    /\ pv_out' = Preview(pv_article)
    /\ pv_pc' = "rendered"
    /\ UNCHANGED <<pv_article, pv_origin, pv_rest>>

PvNext == PvStoreGenerated \/ PvStoreRevised \/ PvRender

PreviewSpec == PvInit /\ [][PvNext]_vars

\* ------------------------------------------- specification: a submission
\* What call_claude can return for the generation prompt.
GenerationReplies ==
    TextsUpTo({Line("text", FALSE), Line("wcmeta", FALSE)}, MaxSubmitLines)
        \cup {EmptyString, None}

\* What call_claude can return for an expansion prompt: nothing, a
\* paragraph, or a line the filters drop.
SupplementReplies == {None, <<Line("text", FALSE)>>, <<Line("label", FALSE)>>}

\* The band strings "2-3" and "abc".
SubmissionBands ==
    {<<BandPart(TRUE, 2), BandPart(TRUE, 3)>>, <<BandPart(FALSE, 0)>>}

\* The session as an earlier submission left it.
PriorArticles == [UK |-> <<Line("text", FALSE), Line("text", FALSE)>>, US |-> None]

PriorHistory == save_to_history(<<>>, "Remote work", PriorArticles, <<"hiring">>, 1)

\* The form is about to be submitted, in a new session or after an earlier
\* submission.
SubInit ==
    /\ sub_pc = "form"
    /\ generate \in [{"UK", "US"} -> BOOLEAN]
    /\ word_count_range \in SubmissionBands
    /\ band_pc = "idle" /\ band_enforcer = <<0, 0>> /\ band_prompt = <<0, 0>>
    /\ sub_band = <<0, 0>>
    /\ sub_stage = 0
    /\ sub_round = 0
    /\ sub_article = None
    /\ sub_expanded = None
    /\ sub_articles = NoArticles
    /\ sub_inflight = {}
    /\ sub_log = <<>>
    /\ \/ rev_articles = NoArticles /\ blog_history = <<>>
       \/ rev_articles = PriorArticles /\ blog_history = PriorHistory
    /\ rev_last = Interaction("none", None, None, 0, None)
    /\ hist_log = <<>>
    /\ SanIdle /\ EnfIdle /\ GwIdle /\ KwIdle /\ MkIdle /\ PvIdle /\ SesIdle

\* The script runs on from the block of the variant at position s, with
\* the dict arts and the trace log: it issues the generation call of the
\* next selected variant, or, past the last variant, stores the articles in
\* the session and appends them to the history when there are any.
Advance(s, arts, log) ==
    LET t == SkipUnselected(s, generate)
    IN  /\ sub_stage' = t
        /\ sub_articles' = arts
        /\ sub_round' = 0
        /\ sub_article' = None
        /\ sub_expanded' = None
        /\ IF t <= Len(VariantOrder)
           THEN /\ sub_pc' = "gen"
                /\ sub_inflight' = {Call(VariantOrder[t], 0)}
                /\ sub_log' = Append(log, IssueEvent(VariantOrder[t], 0))
                /\ UNCHANGED <<rev_articles, blog_history>>
           ELSE /\ sub_pc' = "done"
                /\ sub_inflight' = {}
                /\ IF ShouldSave(arts)
                   THEN /\ rev_articles' = arts
                        /\ blog_history' =
                               save_to_history(blog_history, "Hiring trends", arts,
                                               <<"hiring">>, Len(blog_history) + 1)
                        /\ sub_log' = Append(log, HistoryEvent)
                   ELSE /\ sub_log' = log
                        /\ UNCHANGED <<rev_articles, blog_history>>

\* "Generate Blog Articles" with a title: without a variant selected the
\* script reports it and generates nothing; else the band is parsed and the
\* script runs up to its first generation call.
Submit ==
    /\ sub_pc = "form"
    /\ IF ~(generate.UK \/ generate.US)
       THEN /\ sub_pc' = "done"
            /\ UNCHANGED <<sub_band, sub_stage, sub_round, sub_article,
                           sub_expanded, sub_articles, sub_inflight, sub_log,
                           rev_articles, blog_history>>
       ELSE /\ sub_band' = ParseBand(word_count_range)
            /\ Advance(1, NoArticles, <<>>)
    /\ UNCHANGED <<generate, sub_rest>>

\* The generation call of the variant in hand returns: without an article
\* the variant is left out; else ensure_word_count cleans and measures it
\* and returns it, or issues the call of round 1.
GenerationReturns ==
    /\ sub_pc = "gen"
    /\ \E reply \in GenerationReplies :
         LET variant == VariantOrder[sub_stage]
             log == Append(sub_log, ReturnEvent(variant, 0, reply))
             article == EnforcerClean(reply)
         IN  IF ~Truthy(reply)
             THEN Advance(sub_stage + 1, sub_articles, log)
             ELSE IF MeetsMinimum(WordCount(article), sub_band[1])
             THEN Advance(sub_stage + 1, [sub_articles EXCEPT ![variant] = article],
                          Append(log, EnforcedEvent(variant)))
             ELSE /\ sub_pc' = "round"
                  /\ sub_round' = 1
                  /\ sub_article' = article
                  /\ sub_expanded' = None
                  /\ sub_inflight' = {Call(variant, 1)}
                  /\ sub_log' = Append(log, IssueEvent(variant, 1))
                  /\ UNCHANGED <<sub_stage, sub_articles, rev_articles, blog_history>>
    /\ UNCHANGED <<generate, sub_band, sub_rest>>

\* The call of an expansion round returns: ensure_word_count appends what
\* the filter leaves of the reply and issues the call of the next round, or
\* returns; its result goes into articles and the script runs on.
ExpansionReturns ==
    /\ sub_pc = "round"
    /\ \E reply \in SupplementReplies :
         LET variant == VariantOrder[sub_stage]
             log == Append(sub_log, ReturnEvent(variant, sub_round, reply))
             grown == IF sub_round = 1
                      THEN Expand(sub_article, FilterRound1(reply))
                      ELSE Expand(sub_expanded, FilterRound2(reply))
             met == MeetsMinimum(WordCount(grown), sub_band[1])
             next == AfterRound(sub_round, Truthy(reply), met)
             returned == IF Truthy(reply) THEN grown ELSE sub_article
         IN  IF next # 0
             THEN /\ sub_pc' = "round"
                  /\ sub_round' = next
                  /\ sub_expanded' = grown
                  /\ sub_inflight' = {Call(variant, next)}
                  /\ sub_log' = Append(log, IssueEvent(variant, next))
                  /\ UNCHANGED <<sub_stage, sub_article, sub_articles,
                                 rev_articles, blog_history>>
             ELSE Advance(sub_stage + 1,
                          [sub_articles EXCEPT ![variant] = returned],
                          Append(log, EnforcedEvent(variant)))
    /\ UNCHANGED <<generate, sub_band, sub_rest>>

SubNext == Submit \/ GenerationReturns \/ ExpansionReturns

\* Each call_claude call returns.
SubmissionSpec ==
    SubInit /\ [][SubNext]_vars /\ WF_vars(GenerationReturns \/ ExpansionReturns)

\* ---------------------------------------- specification: a login session
Passwords == {"s3cret", "guess"}

\* st.secrets with the password configured, and without it.
SecretsFiles == {[password |-> "s3cret"], NoKeys}

\* The title and the merged keyword list of a submission.
SessionBlogs ==
    {[title |-> "Hiring trends", keywords |-> <<"hiring">>],
     [title |-> "Remote work", keywords |-> <<"remote work">>]}

\* The dict a submission builds: the UK article, both articles, or nothing
\* when the generation failed.
BuiltArticles ==
    {[UK |-> <<Line("text", FALSE)>>, US |-> None],
     [UK |-> <<Line("text", FALSE)>>, US |-> <<Line("text", FALSE)>>],
     NoArticles}

\* What call_claude can return for the revision prompt of a session.
SessionRevisionReturns == {None, <<Line("rev", FALSE)>>}

\* A browser session opens the page: nothing is in st.session_state.
SesInit ==
    /\ session_state = NoKeys
    /\ st_secrets \in SecretsFiles
    /\ article_dicts = <<>>
    /\ ses_last = Run("none", None, NoKeys, {}, FALSE)
    /\ ses_export = NoExport
    /\ SanIdle /\ EnfIdle /\ GwIdle /\ HistIdle /\ RevIdle /\ KwIdle
    /\ MkIdle /\ BandIdle /\ PvIdle /\ SubIdle

\* The script run ends: what it left is the session of the next run.
Finish(kind, input, r) ==
    /\ session_state' = r.ss
    /\ article_dicts' = r.dicts
    /\ ses_export' = r.export
    /\ ses_last' = Run(kind, input, session_state, r.effects, r.passed)
    /\ UNCHANGED <<st_secrets, ses_rest>>

\* The login form is shown and Login is clicked.
SesLogin ==
    /\ ~check_password(session_state)
    /\ \E typed \in Passwords :
         Finish("login", typed,
                login_run(session_state, article_dicts, st_secrets, typed))

\* The page is requested again with nothing clicked.
SesView ==
    \E r \in {plain_run(session_state, article_dicts)} :
        Finish("view", None, r)

\* The form is submitted with a title, whether or not the gate is open.
SesSubmit ==
    /\ Len(article_dicts) < MaxSubmissions
    /\ \E blog \in SessionBlogs, articles \in BuiltArticles :
         Finish("submit", blog,
                submit_run(session_state, article_dicts, blog.title,
                           blog.keywords, articles, Len(article_dicts) + 1))

\* One of the first five history buttons is clicked.
SesLoad ==
    /\ Has(session_state, "blog_history")
    /\ \E i \in 1..Min(5, Len(session_state["blog_history"])) :
         LET entry == session_state["blog_history"][i]
         IN  Finish("load", entry, load_run(session_state, article_dicts, entry))

\* A revise button is clicked with a request typed in: the button exists
\* when the current articles hold the variant.
SesRevise ==
    /\ Has(session_state, "current_articles")
    /\ \E variant \in {"UK", "US"}, first \in SessionRevisionReturns :
         LET articles == Deref(article_dicts, session_state["current_articles"])
         IN  /\ articles[variant] # None
             /\ Finish("revise", variant,
                       revise_run(session_state, article_dicts, variant,
                                  revise_article(articles[variant], first, None).ret))

\* Logout is clicked, whether or not the gate is open.
SesLogout ==
    \E r \in {logout_run(session_state, article_dicts)} :
        Finish("logout", None, r)

SesNext ==
    \/ SesLogin
    \/ SesView
    \/ SesSubmit
    \/ SesLoad
    \/ SesRevise
    \/ SesLogout

SessionSpec == SesInit /\ [][SesNext]_vars

\* ----------------------------------------------------------------- claims
\* C10: the display sanitizer is idempotent: sanitizing a sanitized text
\* changes nothing, for every input text of meta-commentary, separator,
\* blank and ordinary lines.
C10_SanitizerIdempotent == san_pc = "done" => san_z = san_y

\* The case of C10: a blank line follows a meta-commentary line, a
\* separator is present, and the sanitizer removed something.
C10_Witness ==
    /\ san_pc = "done"
    /\ \E i \in 1..(Len(san_x) - 1) :
           IsDisplayMeta(san_x[i]) /\ IsBlank(san_x[i + 1])
    /\ \E i \in 1..Len(san_x) : IsSeparator(san_x[i])
    /\ Truthy(san_y)
    /\ san_y # san_x

IsPrefix(a, b) == Len(a) <= Len(b) /\ SubSeq(b, 1, Len(a)) = a

EnfDone == enf_pc = "done"

\* C1 as claimed: when ensure_word_count returns, the returned article has
\* at least min words or the enforcer has made exactly 2 expansion rounds.
C1_FloorOrTwoRounds ==
    EnfDone =>
        \/ WordCount(enf_out.ret) >= enf_band[1]
        \/ enf_out.calls = 2

\* C1 as amended: when ensure_word_count returns, the returned article has
\* at least min words, or the enforcer has made exactly 2 expansion rounds,
\* or it made exactly 1 and that call yielded no text (a terminal failure
\* or an empty response), after which the sanitized article is returned,
\* or the input article is the empty string, returned at once.
C1_FloorOrRoundsSpent ==
    EnfDone =>
        \/ WordCount(enf_out.ret) >= enf_band[1]
        \/ enf_out.calls = 2
        \/ /\ enf_out.calls = 1
           /\ ~Truthy(enf_replies[1])
           /\ enf_out.ret = EnforcerClean(enf_article)
        \/ /\ enf_out.calls = 0
           /\ enf_article = EmptyString
           /\ enf_out.ret = EmptyString

\* The case of C1: round 1 terminally fails on an article that is short.
C1_Witness ==
    /\ EnfDone
    /\ enf_out.calls = 1
    /\ enf_replies[1] = None
    /\ WordCount(enf_out.ret) < enf_band[1]

\* C2: the returned article never has fewer words than the sanitized input
\* article, whether sanitized by the enforcer's own cleaning loop or by the
\* display sanitizer.
C2_NeverShrink ==
    EnfDone =>
        /\ WordCount(enf_out.ret) >= WordCount(EnforcerClean(enf_article))
        /\ WordCount(enf_out.ret)
               >= WordCount(clean_article_for_display(enf_article))

\* The case of C2: the cleaning loop removed lines, both rounds ran and the
\* article grew.
C2_Witness ==
    /\ EnfDone
    /\ enf_out.calls = 2
    /\ EnforcerClean(enf_article) # enf_article
    /\ WordCount(enf_out.ret) > WordCount(EnforcerClean(enf_article))

\* C3 as claimed: whenever round 1 appended a supplement, the returned
\* article holds the article as round 1 left it, whatever round 2 does.
C3_BestAccumulatedReturned ==
    (/\ EnfDone
     /\ enf_out.calls >= 1
     /\ Truthy(enf_replies[1])
     /\ Truthy(FilterRound1(enf_replies[1])))
        => IsPrefix(enf_out.expanded, enf_out.ret)

GwDone == gw_pc = "done"

GwCalls == {i \in 1..Len(gw_log) : gw_log[i].ev = "call"}

GwSleeps == {i \in 1..Len(gw_log) : gw_log[i].ev = "sleep"}

GwOverloaded(i) ==
    /\ gw_log[i].ev = "call"
    /\ ~gw_log[i].out.ok
    /\ IsOverloadError(gw_log[i].out.msg)

\* C6: call_claude makes a further attempt only after an attempt that
\* failed with a transient-overload classification (and the backoff that
\* follows it); after any other failure there is no further attempt and no
\* wait, and None is returned at once; after the first success there is no
\* further attempt and its text is returned.
C6_RetryOnlyOnOverload ==
    /\ \A i \in GwCalls :
           i > 1 => /\ i > 2
                    /\ gw_log[i - 1].ev = "sleep"
                    /\ GwOverloaded(i - 2)
    /\ \A i \in GwSleeps : i > 1 /\ GwOverloaded(i - 1)
    /\ \A i \in GwCalls :
           (~gw_log[i].out.ok /\ ~IsOverloadError(gw_log[i].out.msg))
               => i = Len(gw_log) /\ GwDone /\ gw_result = None
    /\ \A i \in GwCalls :
           gw_log[i].out.ok
               => i = Len(gw_log) /\ GwDone /\ gw_result = gw_log[i].out.text

\* The case of C6: an overload was retried, and the retry failed otherwise.
C6_Witness ==
    /\ GwDone
    /\ Cardinality(GwCalls) = 2
    /\ GwOverloaded(1)
    /\ gw_log[Len(gw_log)].out.msg = "Error code: 401 - invalid x-api-key"
    /\ gw_result = None

\* C7: call_claude makes at most retry_count provider calls; when every one
\* of retry_count attempts fails with overload it returns None after exactly
\* retry_count calls; and the call always returns.
C7_RetryCap ==
    /\ [](Cardinality(GwCalls) <= gw_retry)
    /\ []((GwDone /\ \A i \in GwCalls : GwOverloaded(i))
              => Cardinality(GwCalls) = gw_retry /\ gw_result = None)
    /\ <>GwDone

\* The case of C7: every permitted attempt was made and failed overloaded.
C7_Witness ==
    /\ GwDone
    /\ gw_retry = 3
    /\ Cardinality(GwCalls) = 3
    /\ \A i \in GwCalls : GwOverloaded(i)
    /\ gw_result = None

\* C8: the wait after the overload failure of attempt k is 5 * 2^k seconds
\* (5, 10, 20, ...), the waits of one call increase strictly, and no wait
\* follows the failure of the last permitted attempt.
C8_BackoffSequence ==
    LET waits == SelectSeq(gw_log, LAMBDA e : e.ev = "sleep")
    IN  /\ \A j \in 1..Len(waits) :
               /\ waits[j].attempt = j - 1
               /\ waits[j].secs = 5 * 2 ^ (j - 1)
        /\ Len(waits) >= 3 => SubSeq(waits, 1, 3)
                                  = <<SleepEvent(0, 5), SleepEvent(1, 10),
                                      SleepEvent(2, 20)>>
        /\ \A j \in 1..(Len(waits) - 1) : waits[j].secs < waits[j + 1].secs
        /\ \A i \in GwSleeps : gw_log[i - 1].attempt < gw_retry - 1
        /\ gw_pc = "sleep" => gw_attempt < gw_retry - 1

\* The case of C8: three waits were taken and the fourth, last attempt
\* failed overloaded, with no wait after it.
C8_Witness ==
    /\ GwDone
    /\ gw_retry = 4
    /\ Cardinality(GwSleeps) = 3
    /\ GwOverloaded(Len(gw_log))

\* C9: after n insertions the history list has min(n, 10) entries, which
\* are the min(n, 10) entries inserted last, the most recent first.
C9_HistoryCap ==
    LET n == Len(hist_log)
    IN  /\ Len(blog_history) = Min(n, 10)
        /\ \A i \in 1..Len(blog_history) : blog_history[i] = hist_log[n + 1 - i]
        /\ n = 15 => Len(blog_history) = 10

\* The case of C9: 15 entries were inserted.
C9_Witness ==
    /\ Len(hist_log) = 15
    /\ Len(blog_history) = 10
    /\ blog_history[1].timestamp = 15
    /\ blog_history[10].timestamp = 6

Revised == rev_last.variant # "none"

\* The first response held an elision phrase, so a corrective call was due.
ElisionDetected == Revised /\ Truthy(rev_last.first) /\ HasElision(rev_last.first)

\* The gateway terminally failed during the last revision: on the first
\* call, or on the corrective call.
RevisionGatewayFailed ==
    /\ Revised
    /\ \/ rev_last.first = None
       \/ ElisionDetected /\ rev_last.second = None

\* C4: if the gateway terminally fails during a revision, on the first call
\* or on the corrective call, revise_article returns None and the articles
\* in session state after the interaction are those from before it.
C4_RevisionNonDestructive ==
    [][RevisionGatewayFailed' =>
           /\ rev_last'.ret = None
           /\ rev_articles' = rev_articles]_vars

\* The case of C4: truncation was detected and the corrective call failed.
C4_Witness ==
    /\ ElisionDetected
    /\ rev_last.calls = 2
    /\ rev_last.second = None
    /\ rev_last.ret = None
    /\ Truthy(rev_articles[rev_last.variant])

\* C5 as claimed: whenever the first response holds an elision phrase, a
\* corrective call is made and the article then stored holds no elision
\* phrase, whatever the corrective response is.
C5_StoredHasNoElision ==
    ElisionDetected =>
        /\ rev_last.calls = 2
        /\ ~HasElision(rev_articles[rev_last.variant])

\* C5 as amended: whenever the first response holds an elision phrase, one
\* corrective call is made and the first response is never stored: the
\* article stored is the marker-translated corrective response when that
\* response is non-empty, and so free of elision phrases when the
\* corrective response is; otherwise the prior article is kept.
C5_CorrectiveResponseStored ==
    [][ElisionDetected' =>
           LET second == rev_last'.second
               stored == rev_articles'[rev_last'.variant]
               prior == rev_articles[rev_last'.variant]
           IN  /\ rev_last'.calls = 2
               /\ Truthy(second)
                      => /\ Len(stored) = Len(second)
                         /\ \A i \in 1..Len(stored) :
                                stored[i] = IF second[i].k = "rev"
                                            THEN Line("span", second[i].ind)
                                            ELSE second[i]
               /\ (Truthy(second) /\ ~HasElision(second)) => ~HasElision(stored)
               /\ ~Truthy(second) => stored = prior]_vars

\* The case of C5: the elision was detected and a complete corrective
\* response, with a marked change, was stored.
C5_Witness ==
    /\ ElisionDetected
    /\ rev_last.calls = 2
    /\ rev_last.second = <<Line("rev", FALSE)>>
    /\ rev_articles[rev_last.variant] = <<Line("span", FALSE)>>

\* No two entries of the list are equal case-insensitively.
UniqueCaseInsensitive(list) ==
    \A i, j \in 1..Len(list) : KwLower(list[i]) = KwLower(list[j]) => i = j

\* C11 as claimed: for every base list that is unique case-insensitively
\* and every extra-keywords string, the keyword list generate_prompt
\* resolves holds no two entries that are equal case-insensitively, also
\* when the extra string repeats a keyword that the base list lacks.
C11_MergedKeywordsUnique ==
    \A i \in 1..Len(kw_resolved) :
        (kw_resolved[i].fn = "prompt" /\ UniqueCaseInsensitive(GetKeywords(kw_file)))
            => UniqueCaseInsensitive(kw_resolved[i].keywords)

\* C12: merging the extra-keywords string into the list that merging it
\* once produced gives that same list: the list generate_prompt resolves
\* for the second prompt is the one it resolved for the first.
C12_MergeIdempotent ==
    (Len(kw_resolved) = 2 /\ kw_file.has)
        => kw_resolved[2].keywords = kw_resolved[1].keywords

\* The case of C12: the first merge appended keywords, one of them twice,
\* and the string was merged again into the result.
C12_Witness ==
    /\ Len(kw_resolved) = 2
    /\ kw_file = ClientCfg(TRUE, <<Keyword("hiring", FALSE, FALSE),
                                    Keyword("talent", FALSE, FALSE)>>)
    /\ extra_keywords = <<Keyword("remote work", TRUE, FALSE),
                          Keyword("remote work", FALSE, TRUE),
                          Keyword("hiring", TRUE, TRUE)>>
    /\ Len(kw_resolved[1].keywords) > 2
    /\ kw_resolved[2].fn = "prompt"

\* C17 as claimed: composing a prompt, with generate_prompt or with
\* generate_title_only, leaves the keyword list of the loaded client
\* profile as the client file holds it.
C17_ProfileUnchanged == client_cfg = kw_file

\* The returned article begins with the complete sanitized input article.
SanitizedInputKept == IsPrefix(EnforcerClean(enf_article), enf_out.ret)

\* The returned article begins with the article as round 1 extended it.
SupplementKept == enf_out.expanded # None => IsPrefix(enf_out.expanded, enf_out.ret)

\* An article longer than max is returned as sanitized, nothing removed.
OverMaxUntouched ==
    WordCount(EnforcerClean(enf_article)) > enf_band[2]
        => enf_out.ret = EnforcerClean(enf_article)

\* C13 as claimed: the article ensure_word_count returns begins with the
\* complete sanitized input article, supplements are only appended after
\* it and no content generated before is removed (the supplement round 1
\* appended included), and an article longer than max is returned without
\* any removal.
C13_ExpandOnly ==
    EnfDone => SanitizedInputKept /\ SupplementKept /\ OverMaxUntouched

\* The string without its [REVISED] and [/REVISED] markers.
WithoutMarkers(response) ==
    SelectSeq(response, LAMBDA a : a \notin {"[REVISED]", "[/REVISED]"})

\* C14 as claimed: for every generator response r, stripping the highlight
\* annotation from process_revision_colors(r) gives exactly r without its
\* [REVISED] and [/REVISED] markers: all unmarked text passes through
\* unmodified, text holding angle brackets included.
C14_MarkerTranslationReversible ==
    mk_pc = "done" => mk_plain = WithoutMarkers(mk_response)

\* C18 as claimed: for every band string, the band handed to the length
\* enforcer has min > 0 and min <= max, and a string that does not parse as
\* two integers separated by '-' is replaced by the default band
\* (750, 1500).
C18_BandValid ==
    band_pc = "done" =>
        /\ band_enforcer[1] > 0
        /\ band_enforcer[1] <= band_enforcer[2]
        /\ band_prompt = band_enforcer
        /\ ~(Len(word_count_range) = 2 /\ word_count_range[1].int
                                       /\ word_count_range[2].int)
               => band_enforcer = <<750, 1500>>

\* C19 as claimed: every article shown in the preview is the stored article
\* passed through the sanitizer, and the word count shown is counted on
\* that sanitized text (with or without its highlight tags), for freshly
\* generated articles and for articles stored after a revision.
C19_SanitizeBeforeDisplay ==
    pv_pc = "rendered" =>
        LET sanitized == clean_article_for_display(pv_article)
        IN  /\ pv_out.shown = sanitized
            /\ pv_out.count \in {WordCount(sanitized), TagFreeWordCount(sanitized)}

SubDone == sub_pc = "done"

\* The positions of the trace where a call for the variant was issued:
\* any call, or the calls of the expansion rounds.
IssuedFor(variant) ==
    {i \in 1..Len(sub_log) :
        sub_log[i].ev = "issue" /\ sub_log[i].variant = variant}

RoundsIssuedFor(variant) == {i \in IssuedFor(variant) : sub_log[i].round >= 1}

HistoryAppended == \E i \in 1..Len(sub_log) : sub_log[i].ev = "history"

\* C15: within one submission every step for the UK variant, its generation
\* call and all its enforcement calls, is over before the first US call is
\* issued; at most one generator call is in flight at any time, each call
\* returning before the next is issued; and the history append is the last
\* step, after every generation and enforcement step, so that the entry it
\* creates holds only articles whose enforcement has finished.
C15_SubmissionOrdering ==
    LET n == Len(sub_log)
    IN  /\ \A i, j \in 1..n :
               (sub_log[i].variant = "UK" /\ sub_log[j].variant = "US") => i < j
        /\ Cardinality(sub_inflight) <= 1
        /\ \A i \in 1..n :
               sub_log[i].ev = "issue"
                   => IF i = n
                      THEN sub_inflight = {Call(sub_log[i].variant, sub_log[i].round)}
                      ELSE /\ sub_log[i + 1].ev = "return"
                           /\ sub_log[i + 1].variant = sub_log[i].variant
                           /\ sub_log[i + 1].round = sub_log[i].round
        /\ (n > 0 /\ sub_log[n].ev # "issue") => sub_inflight = {}
        /\ \A i \in 1..n :
               sub_log[i].ev = "history"
                   => /\ i = n
                      /\ SubDone
                      /\ sub_inflight = {}
                      /\ \A v \in {"UK", "US"} :
                             blog_history[1].articles[v] # None
                                 => /\ \E j \in 1..(i - 1) : sub_log[j] = EnforcedEvent(v)
                                    /\ blog_history[1].articles[v] = sub_articles[v]
        /\ ~HistoryAppended => blog_history \in {<<>>, PriorHistory}

\* The case of C15: both variants are selected, both needed their two
\* expansion rounds, and the history entry was appended.
C15_Witness ==
    /\ SubDone
    /\ generate.UK /\ generate.US
    /\ Cardinality(RoundsIssuedFor("UK")) = 2
    /\ Cardinality(RoundsIssuedFor("US")) = 2
    /\ HistoryAppended
    /\ Len(blog_history) = 2

\* The generation call of the variant returned None: it terminally failed.
GenerationFailed(log, variant) ==
    \E i \in 1..Len(log) : log[i] = ReturnEvent(variant, 0, None)

\* C16: if the generation call of a variant terminally fails, the
\* submission stores no article for that variant, neither in the session
\* nor in the history; if it fails for every selected variant, the current
\* articles of the session and the history list stay as they were.  The
\* session and the history change in the last step of a submission only.
C16_NoPartialOnFailure ==
    [][/\ sub_pc' # "done" => UNCHANGED <<rev_articles, blog_history>>
       /\ sub_pc' = "done" =>
            /\ \A v \in {"UK", "US"} :
                   GenerationFailed(sub_log', v)
                       => /\ sub_articles'[v] = None
                          /\ \/ rev_articles' = rev_articles
                             \/ rev_articles'[v] = None
                          /\ \/ blog_history' = blog_history
                             \/ blog_history'[1].articles[v] = None
            /\ (\A v \in {"UK", "US"} : generate[v] => GenerationFailed(sub_log', v))
                   => UNCHANGED <<rev_articles, blog_history>>]_vars

\* The case of C16: both variants were selected and both generation calls
\* failed, in a session that held an article and a history entry.
C16_Witness ==
    /\ SubDone
    /\ generate.UK /\ generate.US
    /\ GenerationFailed(sub_log, "UK")
    /\ GenerationFailed(sub_log, "US")
    /\ rev_articles = PriorArticles
    /\ blog_history = PriorHistory

\* C20: one ensure_word_count invocation issues at most 2 supplementary
\* calls, round 1 and then round 2, never round 2 without round 1 before
\* it, and it returns, as the submission does, provided each gateway call
\* returns.
C20_BoundedExpansion ==
    /\ [](\A v \in {"UK", "US"} :
              /\ Cardinality(RoundsIssuedFor(v)) <= 2
              /\ \A i \in RoundsIssuedFor(v) :
                     /\ sub_log[i].round \in {1, 2}
                     /\ sub_log[i].round = 2
                            => \E j \in RoundsIssuedFor(v) :
                                   j < i /\ sub_log[j].round = 1
              /\ \A i, j \in RoundsIssuedFor(v) :
                     sub_log[i].round = sub_log[j].round => i = j)
    /\ (sub_pc = "round") ~> (sub_pc \in {"gen", "done"})
    /\ (sub_pc \in {"gen", "round"}) ~> SubDone

\* The case of C20: an invocation issued both rounds and returned.
C20_Witness ==
    /\ SubDone
    /\ Cardinality(RoundsIssuedFor("UK")) = 2
    /\ \E i \in 1..Len(sub_log) : sub_log[i] = EnforcedEvent("UK")

\* What round 1 leaves: the sanitized input article with the filtered
\* round-1 reply appended.
AfterRoundOne == Expand(EnforcerClean(enf_article), FilterRound1(enf_replies[1]))

\* C21: when the sanitized input article already has at least min words,
\* ensure_word_count returns the sanitized article unchanged and makes no
\* gateway call at all.
C21_MeasureShortcut ==
    (EnfDone /\ WordCount(EnforcerClean(enf_article)) >= enf_band[1]) =>
        /\ enf_out.ret = EnforcerClean(enf_article)
        /\ enf_out.calls = 0
        /\ enf_replies = <<>>

\* The case of C21: a positive minimum met exactly by an article from which
\* the cleaning loop removed a line.
C21_Witness ==
    /\ EnfDone
    /\ enf_band[1] > 0
    /\ WordCount(EnforcerClean(enf_article)) = enf_band[1]
    /\ EnforcerClean(enf_article) # enf_article
    /\ enf_out.calls = 0

\* C22: the round-1 request asks for exactly min - wordCount(sanitized) + 50
\* words, the round-2 request for exactly min - wordCount(article after
\* round 1) + 50 words, both amounts are above 50, and a minimum of 750 with
\* 600 words gives 200.
C22_ShortfallArithmetic ==
    /\ WordsNeeded(750, 600) = 200
    /\ EnfDone =>
        /\ Len(enf_out.asked) = enf_out.calls
        /\ enf_out.calls >= 1 =>
             /\ enf_out.asked[1]
                    = enf_band[1] - WordCount(EnforcerClean(enf_article)) + 50
             /\ enf_out.asked[1] > 50
        /\ enf_out.calls = 2 =>
             /\ enf_out.asked[2] = enf_band[1] - WordCount(AfterRoundOne) + 50
             /\ enf_out.asked[2] > 50

\* The case of C22: both rounds asked, round 2 for less than round 1
\* because round 1 added words.
C22_Witness ==
    /\ EnfDone
    /\ enf_out.calls = 2
    /\ enf_out.asked[2] < enf_out.asked[1]
    /\ enf_out.asked[2] > 50

\* C23: when the article has at least min words after the filtered round-1
\* supplement is appended, ensure_word_count returns that combined article
\* and makes no round-2 call; a round-2 call is made only when the
\* re-measured count is still below min.
C23_RemeasureStops ==
    EnfDone =>
        /\ (enf_out.calls >= 1 /\ Truthy(enf_replies[1])
                /\ WordCount(AfterRoundOne) >= enf_band[1]) =>
             /\ enf_out.calls = 1
             /\ enf_out.ret = AfterRoundOne
        /\ enf_out.calls = 2 =>
             /\ Truthy(enf_replies[1])
             /\ WordCount(AfterRoundOne) < enf_band[1]

\* The case of C23: round 1 brings a short article exactly to the minimum
\* and the enforcer stops there.
C23_Witness ==
    /\ EnfDone
    /\ enf_out.calls = 1
    /\ Truthy(enf_replies[1])
    /\ WordCount(EnforcerClean(enf_article)) < enf_band[1]
    /\ WordCount(AfterRoundOne) = enf_band[1]
    /\ enf_out.ret = AfterRoundOne

\* C25: no line that the round-1 filter would drop (a line with a
\* blocklisted phrase, or a short label-like line ending with a colon) is
\* among the lines that round 2 appends to the article.
C25_RoundTwoFiltersAsRoundOne ==
    (EnfDone /\ enf_out.calls = 2 /\ Truthy(enf_replies[2])) =>
        /\ IsPrefix(AfterRoundOne, enf_out.ret)
        /\ \A i \in (Len(AfterRoundOne) + 1)..Len(enf_out.ret) :
             ~Round1Drops(enf_out.ret[i])

\* C29: whenever ensure_word_count returns an article that it measured as
\* having at least min words, the article still has at least min words
\* after display sanitization.
C29_DisplayAgreesOnLength ==
    (EnfDone /\ enf_out.sanitized # None
        /\ WordCount(enf_out.ret) >= enf_band[1]) =>
        WordCount(clean_article_for_display(enf_out.ret)) >= enf_band[1]

\* C24: revise_article makes a second gateway call if and only if the first
\* call returned a text that holds an elision phrase; it never makes a
\* third call; and when the second call is made, what is returned is the
\* marker-translated second response, not the first.
C24_SingleCorrectiveFollowUp ==
    Revised =>
        LET first == rev_last.first
            second == rev_last.second
        IN  /\ rev_last.calls \in {1, 2}
            /\ rev_last.calls = 2 <=>
                 (Truthy(first) /\ \E i \in 1..Len(first) : first[i].k = "elide")
            /\ rev_last.calls = 2 =>
                 rev_last.ret =
                     IF Truthy(second)
                     THEN [i \in 1..Len(second) |->
                              IF second[i].k = "rev"
                              THEN Line("span", second[i].ind) ELSE second[i]]
                     ELSE second

\* The case of C24: the first response elided content, the corrective call
\* returned a plain complete text and that text was returned.
C24_Witness ==
    /\ Revised
    /\ rev_last.calls = 2
    /\ rev_last.first = <<Line("elide", FALSE)>>
    /\ rev_last.second = <<Line("text", FALSE)>>
    /\ rev_last.ret = <<Line("text", FALSE)>>

\* C26: after any sequence of save_to_history insertions, more than 10
\* included, the ids of the entries in the history list are pairwise
\* distinct.
C26_HistoryIdsUnique ==
    \A i, j \in 1..Len(blog_history) :
        i # j => blog_history[i].id # blog_history[j].id

\* C27: a successful revision of the current article leaves every existing
\* history entry, and the articles recorded in it, unchanged.
C27_HistoryEntriesImmutable ==
    [][(ses_last'.kind = "revise" /\ "articles" \in ses_last'.effects) =>
           /\ session_state'["blog_history"] = session_state["blog_history"]
           /\ \A i \in 1..Len(session_state["blog_history"]) :
                LET entry == session_state["blog_history"][i]
                IN  Deref(article_dicts', entry.articles)
                        = Deref(article_dicts, entry.articles)]_vars

\* C28: after a history entry is loaded, the title and the keyword list
\* that the display section shows and exports are those recorded in the
\* entry.
C28_LoadedEntryShown ==
    (ses_last.kind = "load" /\ ses_last.passed) =>
        /\ ses_export.title = ses_last.input.title
        /\ ses_export.keywords = ses_last.input.keywords

\* The password_correct flag of the session is True.
Authenticated(ss) == "password_correct" \in DOMAIN ss /\ ss["password_correct"] = TRUE

\* C30: a script run makes a generator call, inserts into the history or
\* changes the current articles only when the session's password_correct
\* flag is True when the run starts; after a run in which Logout is clicked
\* no key that the session held is left in it (history, current articles
\* and the flag included), the session holding only the empty password
\* field of the login form that the rerun shows; and the flag becomes True
\* only in a run in which Login is clicked with the configured password
\* typed in.
C30_AuthenticationGate ==
    [][/\ ses_last'.effects # {} => Authenticated(session_state)
       /\ (ses_last'.kind = "logout" /\ ses_last'.passed) =>
              /\ \A key \in DOMAIN session_state : key \notin DOMAIN session_state'
              /\ session_state' = [password_input |-> ""]
              /\ ses_last'.effects = {}
       /\ (Authenticated(session_state') /\ ~Authenticated(session_state)) =>
              /\ ses_last'.kind = "login"
              /\ "password" \in DOMAIN st_secrets
              /\ ses_last'.input = st_secrets["password"]]_vars

\* The case of C30: Logout was clicked in a session that held a history
\* entry and current articles, and nothing is left of it.
C30_Witness ==
    /\ ses_last.kind = "logout"
    /\ ses_last.passed
    /\ Authenticated(ses_last.before)
    /\ Len(ses_last.before["blog_history"]) > 0
    /\ ses_last.before["current_articles"] # 0
    /\ session_state = [password_input |-> ""]
    /\ ~check_password(session_state)

====
